---- MODULE Spec2Model ----
(***************************************************************************)
(* Model of scripts/build-cross-platform.py: the cross-platform build      *)
(* orchestrator (marker check, toolchain probe, target installation,       *)
(* per-target build and strip, artifact collection, checksum manifest,     *)
(* report).  One run of main() is one behaviour.  Every external process   *)
(* the script spawns is one step whose outcome is chosen by the            *)
(* environment; the file system (target/, release/) is part of the state   *)
(* and starts in an arbitrary condition left by earlier runs.              *)
(*                                                                         *)
(* Strings the script takes apart (target triples, file names) are         *)
(* sequences of symbols, "-" being the separator symbol, so that the       *)
(* split on '-' and the glob prefix match are computed, not assumed.       *)
(***************************************************************************)
EXTENDS Integers, Sequences, FiniteSets, TLC

VARIABLES
    pc,              \* position of main(): which call it is about to make
    idx,             \* 1-based index of the current target in the running loop
    marker,          \* Path("Cargo.toml").exists()
    host,            \* platform.system()
    strip_on_path,   \* shutil.which("strip") is not None
    target_fs,       \* target/<triple>/release/rbx-studio-mcp, per triple
    release_exists,  \* the directory release/ exists
    release,         \* entries of release/ other than checksums.txt, per name
    manifest_exists, \* release/checksums.txt exists
    manifest,        \* lines of release/checksums.txt
    todo,            \* entries of release.glob(...) not yet visited
    log,             \* what the print_* helpers have written, in order
    cmds,            \* the external processes spawned so far, with outcomes
    reported,        \* names display_results has listed
    exit_code,       \* process exit status, meaningful once pc = "exited"
    raised,          \* the exception that ended the process, if any
    fs0,             \* the file system as the run found it
    call             \* a direct call build_target(target): argument, local, result

vars == <<pc, idx, marker, host, strip_on_path, target_fs, release_exists,
          release, manifest_exists, manifest, todo, log, cmds, reported,
          exit_code, raised, fs0, call>>

-----------------------------------------------------------------------------
(* Bounds *)

\* number of extra rbx-studio-mcp-* names left in release/ by earlier runs
MaxExtra == 1

\* longest target string, in symbols, handed to build_target on its own
MaxTripleLen == 5

-----------------------------------------------------------------------------
(* Strings *)

Dash == "-"

X86Linux == <<"x86_64", Dash, "unknown", Dash, "linux", Dash, "gnu">>
ArmLinux == <<"aarch64", Dash, "unknown", Dash, "linux", Dash, "gnu">>

\* the three hard-coded target lists of the script
InstallTargetList == <<X86Linux, ArmLinux>>
MainTargetList == <<X86Linux, ArmLinux>>
CopyTargetList == <<X86Linux, ArmLinux>>

BinaryName == <<"rbx", Dash, "studio", Dash, "mcp">>
GlobPrefix == BinaryName \o <<Dash>>

\* dest = release_dir / f"rbx-studio-mcp-{target}"
DestName(target) == GlobPrefix \o target

\* str.split(sep): the maximal runs between separators, empty runs included
RECURSIVE SplitFrom(_, _, _, _)
SplitFrom(s, sep, i, cur) ==
    IF i > Len(s) THEN <<cur>>
    ELSE IF s[i] = sep THEN <<cur>> \o SplitFrom(s, sep, i + 1, <<>>)
    ELSE SplitFrom(s, sep, i + 1, Append(cur, s[i]))

Split(s, sep) == SplitFrom(s, sep, 1, <<>>)

Contains(s, sym) == \E i \in 1..Len(s) : s[i] = sym

IndexError == <<"IndexError">>

\* target.split('-')[2] if '-' in target else 'unknown'
TargetOs(target) ==
    IF Contains(target, Dash)
    THEN IF Len(Split(target, Dash)) >= 3
         THEN Split(target, Dash)[3]
         ELSE IndexError
    ELSE <<"unknown">>

\* str.lower() on the values platform.system() returns
Lower(s) ==
    CASE s = "Windows" -> "windows"
      [] s = "Linux" -> "linux"
      [] s = "Darwin" -> "darwin"
      [] OTHER -> s

HostSystems == {"Windows", "Linux", "Darwin"}

\* the policy widened to every host that is not Linux
SkipPolicy_NonLinuxHost(h, target) ==
    Lower(h) # "linux" /\ TargetOs(target) = <<"linux">>

\* host_os == 'windows' and target_os == 'linux'
SkipPolicy(h, target) == Lower(h) = "windows" /\ TargetOs(target) = <<"linux">>

\* the glob without the dash that ends the prefix
GlobMatch_NoDash(name) ==
    /\ Len(name) >= Len(BinaryName)
    /\ SubSeq(name, 1, Len(BinaryName)) = BinaryName

\* Path.glob("rbx-studio-mcp-*"): names that start with the prefix
GlobMatch(name) ==
    /\ Len(name) >= Len(GlobPrefix)
    /\ SubSeq(name, 1, Len(GlobPrefix)) = GlobPrefix

-----------------------------------------------------------------------------
(* File system *)

RECURSIVE Xs(_)
Xs(n) == IF n = 0 THEN <<>> ELSE <<"x">> \o Xs(n - 1)

\* names earlier runs may have left in release/
ExtraNames == {GlobPrefix \o <<"extra">> \o Xs(i - 1) : i \in 1..MaxExtra}
PlainNames == {BinaryName}
ArtifactNames == {DestName(CopyTargetList[i]) : i \in 1..Len(CopyTargetList)}
RelNames == ArtifactNames \cup ExtraNames \cup PlainNames

Absent == [kind |-> "absent", content |-> "none", mode |-> "none"]
Dir == [kind |-> "dir", content |-> "none", mode |-> "none"]
File(c, m) == [kind |-> "file", content |-> c, mode |-> m]

IsFile(e) == e.kind = "file"
Exists(e) == e.kind # "absent"

\* the effect of strip on a binary
Strip(c) ==
    CASE c = "old" -> "old.stripped"
      [] c = "new" -> "new.stripped"
      [] OTHER -> c

\* SHA-256 of a file's content, as the hashing utilities print it
Sha256(c) ==
    CASE c = "old" -> "d0"
      [] c = "new" -> "d1"
      [] c = "old.stripped" -> "d2"
      [] c = "new.stripped" -> "d3"
      [] OTHER -> "d4"

ReleaseDir == <<"release", "/">>
ManifestName == <<"checksums.txt">>

\* the entries of release/ once checksums.txt has been opened for writing
Listing(rel) == {n \in RelNames : Exists(rel[n])} \cup {ManifestName}

StaleLine == [digest |-> "stale", name |-> <<"stale">>]

-----------------------------------------------------------------------------
(* Printing and running *)

Msg(level, text, arg) == [level |-> level, text |-> text, arg |-> arg]
print_status(text, arg) == Msg("INFO", text, arg)
print_success(text, arg) == Msg("SUCCESS", text, arg)
print_warning(text, arg) == Msg("WARNING", text, arg)
print_error(text, arg) == Msg("ERROR", text, arg)

None == <<>>

\* outcomes of subprocess.run(cmd, check=True)
Outcomes == {"ok", "nonzero", "notfound"}

\* the exception subprocess.run raises for an outcome
Exception(outcome) ==
    CASE outcome = "ok" -> "none"
      [] outcome = "nonzero" -> "CalledProcessError"
      [] outcome = "notfound" -> "FileNotFoundError"

Cmd(prog, arg, outcome) == [prog |-> prog, arg |-> arg, outcome |-> outcome]

\* what run_command prints for an outcome
RunCommandLog(prog, arg, outcome) ==
    <<print_status("Running", <<prog>> \o arg)>> \o
    (IF outcome = "nonzero" THEN <<print_error("Command failed", <<prog>> \o arg)>>
     ELSE <<>>)

\* the process ends: sys.exit(code) or an exception nothing catches
Exit(code, exc) ==
    /\ pc' = "exited"
    /\ exit_code' = code
    /\ raised' = exc

-----------------------------------------------------------------------------
(* Initial state: main() has not started; the file system is whatever      *)
(* earlier runs and the user left behind.                                  *)

TargetSet == {MainTargetList[i] : i \in 1..Len(MainTargetList)}

OldBinary == File("old", "src")
OldArtifact == File("old", "0755")

ReleaseEntries(name) ==
    IF name \in ExtraNames THEN {Absent, OldArtifact, Dir}
    ELSE {Absent, OldArtifact}

FileSystem(t, re, r, me, m) ==
    [target_fs |-> t, release_exists |-> re, release |-> r,
     manifest_exists |-> me, manifest |-> m]

\* main() passes build_target only the configured targets
NoCall == [target |-> None, target_os |-> None, result |-> "none"]

Init ==
    /\ pc = "main"
    /\ idx = 1
    /\ marker \in BOOLEAN
    /\ host \in HostSystems
    /\ strip_on_path \in BOOLEAN
    /\ target_fs \in [TargetSet -> {Absent, OldBinary}]
    /\ release_exists \in BOOLEAN
    /\ release \in [RelNames -> {Absent, OldArtifact, Dir}]
    /\ \A n \in RelNames : release[n] \in ReleaseEntries(n)
    /\ release_exists = FALSE => \A n \in RelNames : release[n] = Absent
    /\ manifest_exists \in BOOLEAN
    /\ manifest_exists => release_exists
    /\ manifest = IF manifest_exists THEN <<StaleLine>> ELSE <<>>
    /\ todo = {}
    /\ log = <<>>
    /\ cmds = <<>>
    /\ reported = {}
    /\ exit_code = 0
    /\ raised = "none"
    /\ fs0 = FileSystem(target_fs, release_exists, release, manifest_exists, manifest)
    /\ call = NoCall

-----------------------------------------------------------------------------
(* main(): marker check *)

\* main() without the Cargo.toml test
MainStart_NoMarkerCheck ==
    /\ pc = "main"
    /\ log' = Append(log, print_status("Starting", None))
    /\ pc' = "check_rustc"
    /\ UNCHANGED <<idx, marker, host, strip_on_path, target_fs, release_exists,
                   release, manifest_exists, manifest, todo, cmds, reported,
                   exit_code, raised, fs0, call>>

MainStart ==
    /\ pc = "main"
    /\ IF marker
       THEN /\ log' = Append(log, print_status("Starting", None))
            /\ pc' = "check_rustc"
            /\ UNCHANGED <<exit_code, raised>>
       ELSE /\ log' = log \o <<print_status("Starting", None),
                               print_error("Please run from project root", None)>>
            /\ Exit(1, "SystemExit")
    /\ UNCHANGED <<idx, marker, host, strip_on_path, target_fs, release_exists,
                   release, manifest_exists, manifest, todo, cmds, reported, fs0, call>>

(* check_rust_installed(), and main()'s sys.exit(1) when it returns False *)

RustNotInstalled == print_error("Rust is not installed", None)

\* the probe with its result ignored by main()
CheckTool_ResultIgnored(at, prog, next, outcome) ==
    /\ pc = at
    /\ cmds' = Append(cmds, Cmd(prog, <<"--version">>, outcome))
    /\ log' = log \o RunCommandLog(prog, <<"--version">>, outcome)
                  \o (IF outcome = "ok" THEN <<>> ELSE <<RustNotInstalled>>)
    /\ pc' = next
    /\ UNCHANGED <<idx, marker, host, strip_on_path, target_fs, release_exists,
                   release, manifest_exists, manifest, todo, reported,
                   exit_code, raised, fs0, call>>

CheckTool(at, prog, next, outcome) ==
    /\ pc = at
    /\ cmds' = Append(cmds, Cmd(prog, <<"--version">>, outcome))
    /\ IF outcome = "ok"
       THEN /\ log' = log \o RunCommandLog(prog, <<"--version">>, outcome)
            /\ pc' = next
            /\ UNCHANGED <<exit_code, raised>>
       ELSE /\ log' = log \o RunCommandLog(prog, <<"--version">>, outcome)
                          \o <<RustNotInstalled>>
            /\ Exit(1, "SystemExit")
    /\ UNCHANGED <<idx, marker, host, strip_on_path, target_fs, release_exists,
                   release, manifest_exists, manifest, todo, reported, fs0, call>>

CheckRustc == \E outcome \in Outcomes :
    CheckTool("check_rustc", "rustc", "check_cargo", outcome)

CheckCargo == \E outcome \in Outcomes :
    CheckTool("check_cargo", "cargo", "install", outcome)

(* install_targets(): one rustup invocation per target *)

\* rustup run without check: its failure goes unnoticed
InstallTarget_Unchecked == \E outcome \in Outcomes :
    LET target == InstallTargetList[idx]
        argv == <<"target", "add">> \o target
    IN  /\ pc = "install"
        /\ cmds' = Append(cmds, Cmd("rustup", argv, outcome))
        /\ log' = log \o <<print_status("Installing target", target),
                            print_status("Running", <<"rustup">> \o argv)>>
        /\ IF idx < Len(InstallTargetList)
           THEN idx' = idx + 1 /\ pc' = "install"
           ELSE idx' = 1 /\ pc' = "build"
        /\ UNCHANGED <<marker, host, strip_on_path, target_fs, release_exists,
                       release, manifest_exists, manifest, todo, reported,
                       exit_code, raised, fs0, call>>

InstallTarget == \E outcome \in Outcomes :
    LET target == InstallTargetList[idx]
        argv == <<"target", "add">> \o target
    IN  /\ pc = "install"
        /\ cmds' = Append(cmds, Cmd("rustup", argv, outcome))
        /\ log' = log \o <<print_status("Installing target", target)>>
                      \o RunCommandLog("rustup", argv, outcome)
        /\ IF outcome = "ok"
           THEN /\ IF idx < Len(InstallTargetList)
                   THEN idx' = idx + 1 /\ pc' = "install"
                   ELSE idx' = 1 /\ pc' = "build"
                /\ UNCHANGED <<exit_code, raised>>
           ELSE /\ Exit(1, Exception(outcome))
                /\ UNCHANGED idx
        /\ UNCHANGED <<marker, host, strip_on_path, target_fs, release_exists,
                       release, manifest_exists, manifest, todo, reported, fs0, call>>

-----------------------------------------------------------------------------
(* main()'s loop over the targets, and build_target(target) *)

\* build_target returned: the loop takes the next target, or main goes on
\* the loop that never leaves its first target
NextTarget_NoAdvance ==
    IF idx < Len(MainTargetList)
    THEN idx' = idx /\ pc' = "build"
    ELSE idx' = 1 /\ pc' = "copy"

NextTarget ==
    IF idx < Len(MainTargetList)
    THEN idx' = idx + 1 /\ pc' = "build"
    ELSE idx' = 1 /\ pc' = "copy"

Building(target) == print_status("Building for", target)

BuildTargetSkip ==
    LET target == MainTargetList[idx]
    IN  /\ pc = "build"
        /\ SkipPolicy(host, target)
        /\ log' = log \o <<Building(target),
                           print_warning("Cross-compiling not supported", None),
                           print_warning("Please use GitHub Actions", None),
                           print_status("Skipping build", None)>>
        /\ NextTarget
        /\ UNCHANGED <<marker, host, strip_on_path, target_fs, release_exists,
                       release, manifest_exists, manifest, todo, cmds, reported,
                       exit_code, raised, fs0, call>>

BuildArgv(target) == <<"build", "--release", "--target">> \o target

\* strip run after every successful build, available and present or not
BuildTargetCargo_AlwaysStrip == \E outcome \in Outcomes, produced \in BOOLEAN :
    LET target == MainTargetList[idx]
        argv == BuildArgv(target)
    IN  /\ pc = "build"
        /\ ~SkipPolicy(host, target)
        /\ TargetOs(target) # IndexError
        /\ outcome # "ok" => ~produced
        /\ cmds' = Append(cmds, Cmd("cargo", argv, outcome))
        /\ log' = log \o <<Building(target)>> \o RunCommandLog("cargo", argv, outcome)
        /\ target_fs' = IF produced
                        THEN [target_fs EXCEPT ![target] = File("new", "src")]
                        ELSE target_fs
        /\ IF outcome = "ok"
           THEN /\ pc' = "strip" /\ UNCHANGED idx
                /\ UNCHANGED <<exit_code, raised>>
           ELSE /\ Exit(1, Exception(outcome))
                /\ UNCHANGED idx
        /\ UNCHANGED <<marker, host, strip_on_path, release_exists, release,
                       manifest_exists, manifest, todo, reported, fs0, call>>

\* cargo build: on success the toolchain may or may not leave a binary at
\* the expected path (the script itself tests for it)
BuildTargetCargo == \E outcome \in Outcomes, produced \in BOOLEAN :
    LET target == MainTargetList[idx]
        argv == BuildArgv(target)
    IN  /\ pc = "build"
        /\ ~SkipPolicy(host, target)
        /\ TargetOs(target) # IndexError
        /\ outcome # "ok" => ~produced
        /\ cmds' = Append(cmds, Cmd("cargo", argv, outcome))
        /\ log' = log \o <<Building(target)>> \o RunCommandLog("cargo", argv, outcome)
        /\ target_fs' = IF produced
                        THEN [target_fs EXCEPT ![target] = File("new", "src")]
                        ELSE target_fs
        /\ IF outcome = "ok"
           THEN /\ IF strip_on_path /\ Exists(target_fs'[target])
                   THEN pc' = "strip" /\ UNCHANGED idx
                   ELSE NextTarget
                /\ UNCHANGED <<exit_code, raised>>
           ELSE /\ Exit(1, Exception(outcome))
                /\ UNCHANGED idx
        /\ UNCHANGED <<marker, host, strip_on_path, release_exists, release,
                       manifest_exists, manifest, todo, reported, fs0, call>>

BuildTargetStrip == \E outcome \in Outcomes :
    LET target == MainTargetList[idx]
        argv == <<"target", "/">> \o target \o <<"/", "release", "/">> \o BinaryName
    IN  /\ pc = "strip"
        /\ cmds' = Append(cmds, Cmd("strip", argv, outcome))
        /\ log' = log \o <<print_status("Stripping", target)>>
                      \o RunCommandLog("strip", argv, outcome)
        /\ IF outcome = "ok"
           THEN /\ target_fs' = [target_fs EXCEPT ![target] =
                                    File(Strip(@.content), @.mode)]
                /\ NextTarget
                /\ UNCHANGED <<exit_code, raised>>
           ELSE /\ Exit(1, Exception(outcome))
                /\ UNCHANGED <<idx, target_fs>>
        /\ UNCHANGED <<marker, host, strip_on_path, release_exists, release,
                       manifest_exists, manifest, todo, reported, fs0, call>>

-----------------------------------------------------------------------------
(* copy_binaries() *)

\* shutil.copy2 then, off Windows, os.chmod(dest, 0o755)
Copied(src, h) == File(src.content, IF h # "Windows" THEN "0755" ELSE src.mode)

\* the loop that clears the destination of a target it finds no binary for
RECURSIVE CopyFrom_RemoveMissing(_, _, _)
CopyFrom_RemoveMissing(i, rel, lg) ==
    IF i > Len(CopyTargetList) THEN [release |-> rel, log |-> lg]
    ELSE LET target == CopyTargetList[i]
             source == target_fs[target]
         IN  IF Exists(source)
             THEN CopyFrom_RemoveMissing(i + 1,
                           [rel EXCEPT ![DestName(target)] = Copied(source, host)],
                           Append(lg, print_success("Copied", target)))
             ELSE CopyFrom_RemoveMissing(i + 1,
                           [rel EXCEPT ![DestName(target)] = Absent],
                           Append(lg, print_error("Binary not found", target)))

\* the loop over the targets from the i-th on: the resulting release/ and log
RECURSIVE CopyFrom(_, _, _)
CopyFrom(i, rel, lg) ==
    IF i > Len(CopyTargetList) THEN [release |-> rel, log |-> lg]
    ELSE LET target == CopyTargetList[i]
             source == target_fs[target]
         IN  IF Exists(source)
             THEN CopyFrom(i + 1,
                           [rel EXCEPT ![DestName(target)] = Copied(source, host)],
                           Append(lg, print_success("Copied", target)))
             ELSE CopyFrom(i + 1, rel,
                           Append(lg, print_error("Binary not found", target)))

CopyBinaries ==
    /\ pc = "copy"
    /\ release_exists' = TRUE
    /\ release' = CopyFrom(1, release, log).release
    /\ log' = CopyFrom(1, release, log).log
    /\ pc' = "checksums"
    /\ UNCHANGED <<idx, marker, host, strip_on_path, target_fs, manifest_exists,
                   manifest, todo, cmds, reported, exit_code, raised, fs0, call>>

-----------------------------------------------------------------------------
(* create_checksums() *)

\* Get-FileHash prints the digest in upper case, sha256sum in lower case
Upper(d) ==
    CASE d = "d0" -> "D0"
      [] d = "d1" -> "D1"
      [] d = "d2" -> "D2"
      [] d = "d3" -> "D3"
      [] OTHER -> "D4"

Line(digest, name) == [digest |-> digest, name |-> name]

\* f.write(f"{hash_value}  {binary.name}\n") with PowerShell's output
PowershellLine(name, content) == Line(Upper(Sha256(content)), name)

\* sha256sum's own output line for the path it was given
Sha256sumLine(name, content) == Line(Sha256(content), ReleaseDir \o name)

\* the manifest opened for appending instead of writing
CreateChecksumsOpen_Append ==
    /\ pc = "checksums"
    /\ log' = Append(log, print_status("Creating checksums", None))
    /\ manifest_exists' = TRUE
    /\ manifest' = manifest
    /\ todo' = {n \in Listing(release) : GlobMatch(n)}
    /\ pc' = "hash"
    /\ UNCHANGED <<idx, marker, host, strip_on_path, target_fs, release_exists,
                   release, cmds, reported, exit_code, raised, fs0, call>>

\* the manifest rebuilt only for files the old manifest does not list
CreateChecksumsOpen_Incremental ==
    /\ pc = "checksums"
    /\ log' = Append(log, print_status("Creating checksums", None))
    /\ manifest_exists' = TRUE
    /\ manifest' = <<>>
    /\ todo' = {n \in Listing(release) :
                    /\ GlobMatch(n)
                    /\ \A k \in DOMAIN manifest :
                           manifest[k].name \notin {n, ReleaseDir \o n}}
    /\ pc' = "hash"
    /\ UNCHANGED <<idx, marker, host, strip_on_path, target_fs, release_exists,
                   release, cmds, reported, exit_code, raised, fs0, call>>

\* open(checksum_file, "w"), and the directory listing the glob walks
CreateChecksumsOpen ==
    /\ pc = "checksums"
    /\ log' = Append(log, print_status("Creating checksums", None))
    /\ manifest_exists' = TRUE
    /\ manifest' = <<>>
    /\ todo' = {n \in Listing(release) : GlobMatch(n)}
    /\ pc' = "hash"
    /\ UNCHANGED <<idx, marker, host, strip_on_path, target_fs, release_exists,
                   release, cmds, reported, exit_code, raised, fs0, call>>

\* an entry that is not a regular file is passed over
HashSkipNonFile == \E name \in todo :
    /\ pc = "hash"
    /\ ~IsFile(release[name])
    /\ todo' = todo \ {name}
    /\ UNCHANGED <<pc, idx, marker, host, strip_on_path, target_fs,
                   release_exists, release, manifest_exists, manifest, log,
                   cmds, reported, exit_code, raised, fs0, call>>

\* one hashing process for one file, in whatever order the listing gives
HashFile == \E name \in todo, outcome \in Outcomes :
    LET prog == IF host = "Windows" THEN "powershell" ELSE "sha256sum"
        line == IF host = "Windows"
                THEN PowershellLine(name, release[name].content)
                ELSE Sha256sumLine(name, release[name].content)
    IN  /\ pc = "hash"
        /\ IsFile(release[name])
        /\ cmds' = Append(cmds, Cmd(prog, ReleaseDir \o name, outcome))
        /\ IF outcome = "notfound"
           THEN /\ Exit(1, Exception(outcome))
                /\ UNCHANGED <<todo, manifest>>
           ELSE /\ todo' = todo \ {name}
                /\ manifest' = IF outcome = "ok" THEN Append(manifest, line)
                               ELSE manifest
                /\ UNCHANGED <<pc, exit_code, raised>>
        /\ UNCHANGED <<idx, marker, host, strip_on_path, target_fs,
                       release_exists, release, manifest_exists, log,
                       reported, fs0, call>>

\* the listing is exhausted: the file is closed and create_checksums returns
CreateChecksumsClose ==
    /\ pc = "hash"
    /\ todo = {}
    /\ pc' = "display"
    /\ UNCHANGED <<idx, marker, host, strip_on_path, target_fs, release_exists,
                   release, manifest_exists, manifest, todo, log, cmds,
                   reported, exit_code, raised, fs0, call>>

-----------------------------------------------------------------------------
(* display_results(), then the end of main() *)

DisplayResults ==
    /\ pc = "display"
    /\ reported' = {n \in RelNames : IsFile(release[n])}
                   \cup (IF manifest_exists THEN {ManifestName} ELSE {})
    /\ log' = log \o <<print_success("Build completed successfully", None),
                       print_status("Release artifacts", None),
                       print_status("Checksums", None),
                       print_success("Linux builds are ready", None)>>
    /\ Exit(0, "none")
    /\ UNCHANGED <<idx, marker, host, strip_on_path, target_fs, release_exists,
                   release, manifest_exists, manifest, todo, cmds, fs0, call>>

-----------------------------------------------------------------------------

Next ==
    \/ MainStart
    \/ CheckRustc
    \/ CheckCargo
    \/ InstallTarget
    \/ BuildTargetSkip
    \/ BuildTargetCargo
    \/ BuildTargetStrip
    \/ CopyBinaries
    \/ CreateChecksumsOpen
    \/ HashSkipNonFile
    \/ HashFile
    \/ CreateChecksumsClose
    \/ DisplayResults

Spec == Init /\ [][Next]_vars

-----------------------------------------------------------------------------
(* build_target(target) on its own, for any target string: the derivation  *)
(* of target_os, the skip decision and the cargo build (lines 65-80).       *)

TripleSymbols == {Dash, "linux", "x86_64"}
Triples == UNION {[1..n -> TripleSymbols] : n \in 0..MaxTripleLen}

InitBuild ==
    /\ pc = "build_target"
    /\ idx = 1
    /\ marker = TRUE
    /\ host \in HostSystems
    /\ strip_on_path = FALSE
    /\ target_fs = [t \in TargetSet |-> Absent]
    /\ release_exists = FALSE
    /\ release = [n \in RelNames |-> Absent]
    /\ manifest_exists = FALSE
    /\ manifest = <<>>
    /\ todo = {}
    /\ log = <<>>
    /\ cmds = <<>>
    /\ reported = {}
    /\ exit_code = 0
    /\ raised = "none"
    /\ fs0 = FileSystem(target_fs, release_exists, release, manifest_exists, manifest)
    /\ call \in {[target |-> t, target_os |-> None, result |-> "pending"] : t \in Triples}

BuildTargetCall == \E outcome \in Outcomes :
    /\ pc = "build_target"
    /\ IF TargetOs(call.target) = IndexError
       THEN /\ call' = [call EXCEPT !.result = "IndexError"]
            /\ log' = Append(log, Building(call.target))
            /\ Exit(1, "IndexError")
            /\ UNCHANGED cmds
       ELSE IF SkipPolicy(host, call.target)
       THEN /\ call' = [call EXCEPT !.target_os = TargetOs(call.target),
                                    !.result = "skipped"]
            /\ log' = log \o <<Building(call.target),
                               print_warning("Cross-compiling not supported", None),
                               print_warning("Please use GitHub Actions", None),
                               print_status("Skipping build", None)>>
            /\ pc' = "returned"
            /\ UNCHANGED <<cmds, exit_code, raised>>
       ELSE /\ call' = [call EXCEPT !.target_os = TargetOs(call.target),
                                    !.result = IF outcome = "ok" THEN "built"
                                               ELSE "failed"]
            /\ cmds' = Append(cmds, Cmd("cargo", BuildArgv(call.target), outcome))
            /\ log' = log \o <<Building(call.target)>>
                          \o RunCommandLog("cargo", BuildArgv(call.target), outcome)
            /\ IF outcome = "ok"
               THEN pc' = "returned" /\ UNCHANGED <<exit_code, raised>>
               ELSE Exit(1, Exception(outcome))
    /\ UNCHANGED <<idx, marker, host, strip_on_path, target_fs, release_exists,
                   release, manifest_exists, manifest, todo, reported, fs0>>

NextBuild == BuildTargetCall

SpecBuild == InitBuild /\ [][NextBuild]_vars

-----------------------------------------------------------------------------
(* The script run a second time after a run that completed, in the same    *)
(* environment: every process the second run spawns ends as the same        *)
(* process ended in the first run, and cargo leaves nothing it did not      *)
(* leave the first time.                                                    *)

Invocation == Cmd("python", <<"build-cross-platform.py">>, "ok")

Reran == \E k \in DOMAIN cmds : cmds[k] = Invocation
SecondStart == CHOOSE k \in DOMAIN cmds : cmds[k] = Invocation

Rerun ==
    /\ pc = "exited"
    /\ exit_code = 0
    /\ ~Reran
    /\ pc' = "main"
    /\ idx' = 1
    /\ cmds' = Append(cmds, Invocation)
    /\ fs0' = FileSystem(target_fs, release_exists, release, manifest_exists, manifest)
    /\ todo' = {}
    /\ reported' = {}
    /\ raised' = "none"
    /\ UNCHANGED <<marker, host, strip_on_path, target_fs, release_exists,
                   release, manifest_exists, manifest, log, exit_code, call>>

\* the processes of the second run ended as they did in the first
SameOutcomes ==
    Reran => \A k \in DOMAIN cmds : k > SecondStart =>
                 \E j \in 1..(SecondStart - 1) : cmds[j] = cmds[k]

\* cargo writes a binary in the second run only where the first run left one
\* of its own
SameToolchainOutput ==
    Reran => \A t \in TargetSet :
                 (target_fs'[t] # target_fs[t] /\ target_fs'[t].content = "new") =>
                     fs0.target_fs[t].content \in {"new", "new.stripped"}

\* the first run is one that runs the whole pipeline
FirstRunCompletes == (~Reran /\ pc = "exited") => exit_code = 0

\* before the first run: the marker is there, and release/ holds nothing
\* but regular rbx-studio-mcp-* files, at most one of them beside the
\* targets' own, and possibly a manifest
InitTwice ==
    /\ Init
    /\ marker
    /\ \A n \in RelNames : release[n] # Dir
    /\ \A n \in PlainNames : release[n] = Absent
    /\ \A n, m \in ExtraNames : (Exists(release[n]) /\ Exists(release[m])) => n = m

NextTwice ==
    \/ Next /\ SameOutcomes' /\ SameToolchainOutput /\ FirstRunCompletes'
    \/ Rerun

SpecTwice == InitTwice /\ [][NextTwice]_vars

-----------------------------------------------------------------------------
(* What a run has done so far, read off the process record and the log *)

Ran(prog, argv) == {k \in DOMAIN cmds : cmds[k].prog = prog /\ cmds[k].arg = argv}
RanProg(prog) == {k \in DOMAIN cmds : cmds[k].prog = prog}
Failed(k) == cmds[k].outcome # "ok"
Logged(m) == \E k \in DOMAIN log : log[k] = m

Targets == DOMAIN MainTargetList
StripArgv(target) == <<"target", "/">> \o target \o <<"/", "release", "/">> \o BinaryName

BuildRan(i) == Ran("cargo", BuildArgv(MainTargetList[i])) # {}
BuildExitedNonZero(i) ==
    \E k \in Ran("cargo", BuildArgv(MainTargetList[i])) : cmds[k].outcome = "nonzero"
BuildFailed(i) == \E k \in Ran("cargo", BuildArgv(MainTargetList[i])) : Failed(k)
BuildSucceeded(i) ==
    \E k \in Ran("cargo", BuildArgv(MainTargetList[i])) : cmds[k].outcome = "ok"
StripRan(i) == Ran("strip", StripArgv(MainTargetList[i])) # {}
StripFailed(i) == \E k \in Ran("strip", StripArgv(MainTargetList[i])) : Failed(k)
BuildEntered(i) == Logged(Building(MainTargetList[i]))
BuildSkipped(i) == BuildEntered(i) /\ SkipPolicy(host, MainTargetList[i])

ProbePassed == /\ \E k \in Ran("rustc", <<"--version">>) : ~Failed(k)
               /\ \E k \in Ran("cargo", <<"--version">>) : ~Failed(k)
ToolchainAbsent == \/ \E k \in Ran("rustc", <<"--version">>) : Failed(k)
                   \/ \E k \in Ran("cargo", <<"--version">>) : Failed(k)

Collected == pc \in {"checksums", "hash", "display"} \/ Logged(print_status("Creating checksums", None))
Checksummed == pc = "display" \/ Logged(print_status("Checksums", None))
Reported == Logged(print_success("Linux builds are ready", None))
Ended == pc = "exited"

ArtifactFiles == {n \in RelNames : GlobMatch(n) /\ IsFile(release[n])}
LinesFor(n) == {k \in DOMAIN manifest :
                   manifest[k].name = n \/ manifest[k].name = ReleaseDir \o n}
HashOf(n) == {k \in RanProg("powershell") \cup RanProg("sha256sum") :
                 cmds[k].arg = ReleaseDir \o n}
HashOk(n) == \E k \in HashOf(n) : cmds[k].outcome = "ok"

-----------------------------------------------------------------------------
(* Claims *)

\* C1: per-target isolation: once the release build of a target has exited
\* non-zero, the run still enters the build of every later target and still
\* performs the collect, checksum and report steps before it ends.
C1_PerTargetIsolation ==
    Ended => \A i \in Targets :
        BuildExitedNonZero(i) =>
            /\ \A j \in Targets : j > i => BuildEntered(j)
            /\ Collected /\ Checksummed /\ Reported

\* C2: a run that passed the marker and toolchain checks and in which a
\* target build failed ends with exit code 0, and exit code 1 occurs only
\* when the marker is missing or the toolchain is absent.
C2_ExitCode ==
    Ended =>
        /\ (marker /\ ProbePassed /\ (\E i \in Targets : BuildFailed(i))) => exit_code = 0
        /\ exit_code = 1 => (~marker \/ ToolchainAbsent)

\* C3: at the end of a run a target whose build failed in this run has no
\* artifact in release/ and no manifest line; with the first build failed
\* and the second succeeded, release/ holds exactly one artifact and the
\* manifest exactly one entry.
C3_FailedTargetLeavesNothing ==
    Ended =>
        /\ \A i \in Targets : BuildFailed(i) =>
               /\ ~Exists(release[DestName(MainTargetList[i])])
               /\ LinesFor(DestName(MainTargetList[i])) = {}
        /\ (BuildFailed(1) /\ BuildSucceeded(2)) =>
               /\ ArtifactFiles = {DestName(MainTargetList[2])}
               /\ Len(manifest) = 1

\* C4: with Cargo.toml absent the run ends with exit code 1, spawns no
\* external process at all and leaves release/ and the manifest as found.
C4_MarkerAbsent ==
    ~marker =>
        /\ pc \in {"main", "exited"}
        /\ Ended => exit_code = 1
        /\ cmds = <<>>
        /\ FileSystem(target_fs, release_exists, release, manifest_exists, manifest) = fs0

C4_Witness ==
    Ended /\ ~marker /\ exit_code = 1 /\ release_exists /\ manifest_exists

\* C5 as stated: with the toolchain absent the run exits 1 after exactly one
\* version query of the compiler and exactly one of the package manager, and
\* never installs or builds a target.
C5_Original ==
    (Ended /\ ToolchainAbsent) =>
        /\ exit_code = 1
        /\ Cardinality(Ran("rustc", <<"--version">>)) = 1
        /\ Cardinality(Ran("cargo", <<"--version">>)) = 1
        /\ RanProg("rustup") = {}
        /\ \A i \in Targets : ~BuildRan(i) /\ ~BuildEntered(i)

\* C5 amended: with the toolchain absent the run exits 1 after exactly one
\* version query of the compiler and at most one of the package manager
\* (one when the compiler's query succeeded, none when it failed), and never
\* installs or builds a target.
C5_ToolchainAbsent ==
    ToolchainAbsent =>
        /\ Ended /\ exit_code = 1 /\ raised = "SystemExit"
        /\ Cardinality(Ran("rustc", <<"--version">>)) = 1
        /\ Cardinality(Ran("cargo", <<"--version">>)) =
               (IF \E k \in Ran("rustc", <<"--version">>) : Failed(k) THEN 0 ELSE 1)
        /\ Len(cmds) = IF \E k \in Ran("rustc", <<"--version">>) : Failed(k) THEN 1 ELSE 2
        /\ RanProg("rustup") = {}
        /\ \A i \in Targets : ~BuildRan(i) /\ ~BuildEntered(i)

C5_Witness ==
    /\ Ended /\ exit_code = 1
    /\ \E k \in Ran("rustc", <<"--version">>) : ~Failed(k)
    /\ \E k \in Ran("cargo", <<"--version">>) : Failed(k)

\* C6: on a Windows host a target whose OS component is linux is skipped:
\* neither the release build nor strip is run for it, and no artifact for it
\* comes to exist in release/ through the run, whatever target/ and release/
\* held before.
C6_SkippedLeavesNoArtifact ==
    \A i \in Targets :
        (host = "Windows" /\ TargetOs(MainTargetList[i]) = <<"linux">>) =>
            /\ ~BuildRan(i) /\ ~StripRan(i)
            /\ ~Exists(fs0.release[DestName(MainTargetList[i])]) =>
                   ~Exists(release[DestName(MainTargetList[i])])

\* C7: for a target skipped by the host/target policy, no step of the run
\* logs an error about that target.
C7_SkipsAreNotErrors ==
    \A i \in Targets : BuildSkipped(i) =>
        \A k \in DOMAIN log :
            ~(log[k].level = "ERROR" /\ log[k].arg = MainTargetList[i])

\* C8 as stated: right after manifest generation the manifest holds exactly
\* one entry per artifact file in release/, no duplicates, nothing of the
\* prior manifest.
C8_Original ==
    pc = "display" =>
        /\ \A n \in ArtifactFiles : Cardinality(LinesFor(n)) = 1
        /\ Len(manifest) = Cardinality(ArtifactFiles)

\* C8 amended: right after manifest generation the manifest holds exactly
\* one entry per artifact file in release/ whose hashing command exited
\* zero and none for any other, no duplicates, nothing of the prior manifest.
C8_ManifestEntries ==
    pc = "display" =>
        /\ \A n \in ArtifactFiles :
               Cardinality(LinesFor(n)) = (IF HashOk(n) THEN 1 ELSE 0)
        /\ Len(manifest) = Cardinality({n \in ArtifactFiles : HashOk(n)})
        /\ \A k \in DOMAIN manifest : manifest[k] # StaleLine
        /\ \A n \in ArtifactFiles : Cardinality(HashOf(n)) = 1

C8_Witness ==
    /\ pc = "display"
    /\ fs0.manifest = <<StaleLine>>
    /\ Len(manifest) >= 2
    /\ \E n \in ArtifactFiles : ~HashOk(n)

\* C9: a failed strip on one target's binary does not end the batch: a
\* warning is logged, the later targets are still built, and the collect,
\* checksum and report steps still run.
C9_StripFailureIsolated ==
    Ended => \A i \in Targets :
        StripFailed(i) =>
            /\ \E k \in DOMAIN log : log[k].level = "WARNING"
            /\ \A j \in Targets : j > i => BuildEntered(j)
            /\ Collected /\ Checksummed /\ Reported

\* C10: when hashing one artifact fails (non-zero exit or the utility cannot
\* be started) the failure is logged, the file has no manifest line, every
\* artifact hashed successfully has its line, and the run reaches the report
\* step and exits 0.
C10_HashFailureIsolated ==
    Ended => \A n \in RelNames :
        (\E k \in HashOf(n) : Failed(k)) =>
            /\ \E k \in DOMAIN log : log[k].level \in {"ERROR", "WARNING"} /\ log[k].arg = n
            /\ LinesFor(n) = {}
            /\ \A m \in ArtifactFiles :
                   (\A k \in HashOf(m) : ~Failed(k)) => Cardinality(LinesFor(m)) = 1
            /\ Reported /\ exit_code = 0

\* C14: in build_target the target OS is the third field of the target
\* split on '-'; for a target with fewer than three fields (no separator, or
\* exactly one) it is the literal 'unknown' and build_target goes on without
\* raising.
C14_OsDerivation ==
    call.result \notin {"none", "pending"} =>
        /\ Len(Split(call.target, Dash)) >= 3 =>
               call.target_os = Split(call.target, Dash)[3]
        /\ Len(Split(call.target, Dash)) < 3 =>
               /\ call.target_os = <<"unknown">>
               /\ call.result # "IndexError"
               /\ raised = "none"

InstallArgv(target) == <<"target", "add">> \o target
InstallFailed == \E k \in RanProg("rustup") : Failed(k)

\* the phase a process belongs to, and the phase a position of main() is in
CmdPhase(c) ==
    CASE c.prog = "rustc" -> 1
      [] c.prog = "cargo" /\ c.arg = <<"--version">> -> 2
      [] c.prog = "rustup" -> 3
      [] c.prog = "cargo" /\ c.arg # <<"--version">> -> 4
      [] c.prog = "strip" -> 4
      [] OTHER -> 6

PcPhase(p) ==
    CASE p = "main" -> 0
      [] p = "check_rustc" -> 1
      [] p = "check_cargo" -> 2
      [] p = "install" -> 3
      [] p \in {"build", "strip"} -> 4
      [] p = "copy" -> 5
      [] p \in {"checksums", "hash"} -> 6
      [] p = "display" -> 7
      [] OTHER -> 8

\* the configured target a process was run for
CmdTarget(c) ==
    CHOOSE i \in Targets :
        c.arg \in {InstallArgv(MainTargetList[i]), BuildArgv(MainTargetList[i]),
                   StripArgv(MainTargetList[i])}

\* the phase a log line belongs to (0: lines any phase may print)
LogPhase(m) ==
    CASE m.text = "Installing target" -> 3
      [] m.text \in {"Building for", "Cross-compiling not supported",
                     "Please use GitHub Actions", "Skipping build", "Stripping"} -> 4
      [] m.text \in {"Copied", "Binary not found"} -> 5
      [] m.text = "Creating checksums" -> 6
      [] m.text \in {"Build completed successfully", "Release artifacts",
                     "Checksums", "Linux builds are ready"} -> 7
      [] OTHER -> 0

\* where a process stands in the configured order: phase, then target, then
\* build before strip
CmdKey(c) ==
    CmdPhase(c) * 100
    + (IF CmdPhase(c) \in {3, 4} THEN CmdTarget(c) * 10 ELSE 0)
    + (IF c.prog = "strip" THEN 1 ELSE 0)

SameCommand(c, d) == c.prog = d.prog /\ c.arg = d.arg

\* the process c spawned after those in done comes later in the configured
\* order than the last of them, is none of them again, and a strip comes
\* directly after the cargo build of its own target
ComesNext(done, c) ==
    /\ done # <<>> =>
           \/ CmdKey(done[Len(done)]) < CmdKey(c)
           \/ CmdPhase(done[Len(done)]) = 6 /\ CmdPhase(c) = 6
    /\ \A j \in DOMAIN done : ~SameCommand(done[j], c)
    /\ c.prog = "strip" =>
           /\ done # <<>>
           /\ done[Len(done)].prog = "cargo"
           /\ CmdKey(done[Len(done)]) + 1 = CmdKey(c)

C12_Step ==
    /\ PcPhase(pc') >= PcPhase(pc)
    /\ \/ cmds' = cmds
       \/ /\ cmds' = Append(cmds, cmds'[Len(cmds')])
          /\ CmdPhase(cmds'[Len(cmds')]) = PcPhase(pc)
          /\ ComesNext(cmds, cmds'[Len(cmds')])
          /\ pc \in {"install", "build", "strip"} => CmdTarget(cmds'[Len(cmds')]) = idx
    /\ Len(log') >= Len(log)
    /\ \A k \in (Len(log) + 1)..Len(log') : LogPhase(log'[k]) \in {0, PcPhase(pc)}
    /\ (pc' = pc /\ pc \in {"install", "build"}) => idx' = idx + 1
    /\ (pc = "build" /\ pc' = "strip") => idx' = idx
    /\ (pc = "strip" /\ pc' = "build") => idx' = idx + 1

\* C12: a run spawns at most one process per step, each awaited before the
\* next; targets are taken in the configured order, build before strip,
\* each target done with before the next; no command is run twice; the
\* phases come only in the order probe, install, builds, collect, checksum,
\* report.
C12_StrictSequencing == [][C12_Step]_vars

C12_Witness ==
    /\ Ended /\ exit_code = 0
    /\ Len(cmds) >= 9
    /\ \A i \in Targets : BuildRan(i) /\ StripRan(i)

\* C13: once a rustup target installation has failed it is not retried,
\* nothing further is installed, built or hashed, release/ and the manifest
\* are as the run found them, and the process has ended with a non-zero
\* exit code.
C13_InstallFailureFatal ==
    InstallFailed =>
        /\ Ended /\ exit_code # 0
        /\ cmds[Len(cmds)].prog = "rustup" /\ Failed(Len(cmds))
        /\ \A k \in RanProg("rustup") : Cardinality(Ran("rustup", cmds[k].arg)) = 1
        /\ \A i \in Targets : ~BuildEntered(i) /\ ~BuildRan(i)
        /\ FileSystem(target_fs, release_exists, release, manifest_exists, manifest) = fs0

C13_Witness ==
    /\ Ended /\ InstallFailed
    /\ Cardinality(RanProg("rustup")) = 2
    /\ fs0.manifest_exists

C16_StripOnlyAfterBuild ==
    /\ \A k \in RanProg("strip") : \E i \in Targets : cmds[k].arg = StripArgv(MainTargetList[i])
    /\ \A i \in Targets : \A k \in Ran("strip", StripArgv(MainTargetList[i])) :
           /\ k > 1
           /\ cmds[k - 1] = Cmd("cargo", BuildArgv(MainTargetList[i]), "ok")
           /\ strip_on_path
           /\ Exists(target_fs[MainTargetList[i]])
           /\ ~BuildSkipped(i) /\ ~BuildFailed(i)
           /\ Cardinality(Ran("strip", StripArgv(MainTargetList[i]))) = 1
    /\ pc = "strip" =>
           /\ strip_on_path /\ Exists(target_fs[MainTargetList[idx]])
           /\ cmds[Len(cmds)] = Cmd("cargo", BuildArgv(MainTargetList[idx]), "ok")

C16_Witness ==
    /\ StripRan(2)
    /\ ~Exists(fs0.target_fs[MainTargetList[2]])
    /\ ~StripRan(1) /\ BuildSucceeded(1)

Done == Ended /\ exit_code = 0

\* C17: nothing is ever deleted from release/: every file named
\* rbx-studio-mcp-* that was there before the run is still there, and once
\* the run is Done it is listed in the new manifest if its hash succeeded,
\* also when its target was skipped or not built in this run.
C17_NothingDeleted ==
    \A n \in RelNames :
        (GlobMatch(n) /\ IsFile(fs0.release[n])) =>
            /\ IsFile(release[n])
            /\ (Done /\ HashOk(n)) => LinesFor(n) # {}

C17_Witness ==
    /\ Done
    /\ BuildSkipped(1)
    /\ IsFile(fs0.release[DestName(MainTargetList[1])])
    /\ ~Exists(target_fs[MainTargetList[1]])
    /\ LinesFor(DestName(MainTargetList[1])) # {}
    /\ \E n \in ExtraNames : IsFile(fs0.release[n]) /\ LinesFor(n) # {}

ManifestWritten == pc \in {"hash", "display"} \/ (Ended /\ Collected)

\* C18: the manifest has no phantom or self entries: every line written to
\* checksums.txt names a regular file that is in release/ and whose name
\* starts with rbx-studio-mcp-, and checksums.txt itself is never listed.
C18_NoPhantomEntries ==
    ManifestWritten => \A k \in DOMAIN manifest :
        /\ \E n \in RelNames :
               /\ manifest[k].name \in {n, ReleaseDir \o n}
               /\ IsFile(release[n])
               /\ Len(n) >= Len(BinaryName) + 1
               /\ SubSeq(n, 1, Len(BinaryName) + 1) = BinaryName \o <<Dash>>
        /\ manifest[k].name \notin {ManifestName, ReleaseDir \o ManifestName}

C18_Witness ==
    /\ pc = "display"
    /\ Len(manifest) >= 2
    /\ IsFile(release[BinaryName])
    /\ \E n \in ExtraNames : release[n] = Dir

Entries(m) == {m[k] : k \in DOMAIN m}

\* C11: the pipeline run twice with the same per-step outcomes against an
\* unchanged toolchain output is idempotent: the manifest the second run
\* writes equals the first run's as a set of (digest, filename) pairs.
C11_Idempotent ==
    (Reran /\ Done) => Entries(manifest) = Entries(fs0.manifest)

C11_Witness ==
    /\ Reran /\ Done
    /\ Len(manifest) >= 2
    /\ manifest # fs0.manifest
    /\ \E t \in TargetSet : target_fs[t].content = "new.stripped"

====
